---- MODULE Spec2Model ----
(***************************************************************************)
(* The execution engine of rust-javascript-engine                          *)
(* (src/src/execution_engine.rs) as a state machine.                       *)
(*                                                                         *)
(* execute_expression is a recursive function; here its call stack is the  *)
(* variable `stack`, one frame per active call, and every straight-line    *)
(* block of the function is one action.  The value a call hands back to    *)
(* its caller is the variable `returned`.                                  *)
(*                                                                         *)
(* Memory, ExecutionScope, JavascriptObject and Parser are the other       *)
(* modules of the crate; they are modelled from their documented contract  *)
(* (ExecutionScope::assign replaces the handle of the binding it finds).   *)
(***************************************************************************)
EXTENDS Integers, Sequences, FiniteSets, TLC

(***************************************************************************)
(* Floating point numbers.  A float is a pair <<n, d>>:                    *)
(*   d > 0, n # 0, gcd(n, d) = 1   the finite non-zero number n/d          *)
(*   <<0, 1>>, <<0, -1>>           +0 and -0                               *)
(*   <<1, 0>>, <<-1, 0>>           +infinity and -infinity                 *)
(*   <<0, 0>>                      not-a-number                            *)
(* Rounding and overflow are out of reach of the literals used here.       *)
(***************************************************************************)
NaN == <<0, 0>>

Abs(n) == IF n < 0 THEN -n ELSE n

RECURSIVE Gcd(_, _)
Gcd(a, b) == IF b = 0 THEN a ELSE Gcd(b, a % b)

FloatOf(n) == <<n, 1>>

IsNaN(a) == a = NaN

IsInf(a) == a[2] = 0 /\ a[1] # 0

IsZero(a) == a[1] = 0 /\ a[2] # 0

Sign(a) == IF a[1] > 0 THEN 1 ELSE IF a[1] < 0 THEN -1 ELSE a[2]

Norm(n, d) == LET g == Gcd(Abs(n), d) IN <<n \div g, d \div g>>

FloatNeg(a) == IF IsZero(a) THEN <<0, -a[2]>> ELSE <<-a[1], a[2]>>

FloatAdd(a, b) ==
    IF IsNaN(a) \/ IsNaN(b) THEN NaN
    ELSE IF IsInf(a) /\ IsInf(b) THEN (IF a = b THEN a ELSE NaN)
    ELSE IF IsInf(a) THEN a
    ELSE IF IsInf(b) THEN b
    ELSE IF IsZero(a) /\ IsZero(b) THEN (IF a = b THEN a ELSE <<0, 1>>)
    ELSE IF IsZero(a) THEN b
    ELSE IF IsZero(b) THEN a
    ELSE LET n == a[1] * b[2] + b[1] * a[2]
         IN  IF n = 0 THEN <<0, 1>> ELSE Norm(n, a[2] * b[2])

FloatSub(a, b) == FloatAdd(a, FloatNeg(b))

FloatMul(a, b) ==
    IF IsNaN(a) \/ IsNaN(b) THEN NaN
    ELSE IF (IsInf(a) /\ IsZero(b)) \/ (IsZero(a) /\ IsInf(b)) THEN NaN
    ELSE IF IsInf(a) \/ IsInf(b) THEN <<Sign(a) * Sign(b), 0>>
    ELSE IF IsZero(a) \/ IsZero(b) THEN <<0, Sign(a) * Sign(b)>>
    ELSE Norm(a[1] * b[1], a[2] * b[2])

FloatDiv(a, b) ==
    IF IsNaN(a) \/ IsNaN(b) THEN NaN
    ELSE IF (IsInf(a) /\ IsInf(b)) \/ (IsZero(a) /\ IsZero(b)) THEN NaN
    ELSE IF IsInf(a) \/ IsZero(b) THEN <<Sign(a) * Sign(b), 0>>
    ELSE IF IsInf(b) \/ IsZero(a) THEN <<0, Sign(a) * Sign(b)>>
    ELSE Norm(Sign(b) * a[1] * b[2], a[2] * Abs(b[1]))

FloatEq(a, b) ==
    IF IsNaN(a) \/ IsNaN(b) THEN FALSE
    ELSE IF IsZero(a) /\ IsZero(b) THEN TRUE
    ELSE a = b

(***************************************************************************)
(* JavascriptObjectKind: a tagged value.  Text is a sequence of            *)
(* one-character strings.                                                  *)
(***************************************************************************)
Undefined == <<"Undefined">>

Boolean(b) == <<"Boolean", b>>

Number(f) == <<"Number", f>>

String(s) == <<"String", s>>

Digits == <<"0", "1", "2", "3", "4", "5", "6", "7", "8", "9">>

DigitValue(c) == (CHOOSE i \in 1..10 : Digits[i] = c) - 1

IsDigit(c) == \E i \in 1..10 : Digits[i] = c

RECURSIVE ParseDigits(_, _)
ParseDigits(s, acc) ==
    IF s = <<>> THEN acc
    ELSE ParseDigits(Tail(s), 10 * acc + DigitValue(Head(s)))

\* text -> float: a run of decimal digits is its number, anything else NaN.
parse_number(s) ==
    IF s # <<>> /\ \A i \in 1..Len(s) : IsDigit(s[i])
    THEN FloatOf(ParseDigits(s, 0))
    ELSE NaN

cast_to_number(kind) ==
    CASE kind[1] = "Number"    -> kind[2]
      [] kind[1] = "String"    -> parse_number(kind[2])
      [] kind[1] = "Boolean"   -> IF kind[2] THEN FloatOf(1) ELSE FloatOf(0)
      [] kind[1] = "Undefined" -> NaN

is_equal_to_non_strict(a, b) ==
    IF a[1] = "Undefined" \/ b[1] = "Undefined"
    THEN a[1] = "Undefined" /\ b[1] = "Undefined"
    ELSE IF a[1] = b[1]
    THEN (IF a[1] = "Number" THEN FloatEq(a[2], b[2]) ELSE a[2] = b[2])
    ELSE FloatEq(cast_to_number(a), cast_to_number(b))


(***************************************************************************)
(* JavascriptObjectRef: a handle is the object's id together with its      *)
(* value.  Nothing in the engine writes through a handle, so every copy of *)
(* a handle carries the value the object was allocated with.               *)
(***************************************************************************)
JavascriptObjectRef(id, kind) == [id |-> id, kind |-> kind]

NoObject == JavascriptObjectRef(-1, Undefined)

\* Option<T> is a sequence of length 0 (None) or 1 (Some).
None == <<>>

Some(v) == <<v>>

(***************************************************************************)
(* Memory: the id -> handle table and the id counter.                      *)
(***************************************************************************)
MemoryNew == [objects |-> <<>>, next_id |-> 0]

\* allocate_undefined / allocate_boolean / allocate_number / allocate_string:
\* mint a fresh id, insert into the table, return the handle.
Allocate(mem, kind) ==
    LET object == JavascriptObjectRef(mem.next_id, kind)
    IN  [memory |-> [objects |-> (mem.next_id :> object) @@ mem.objects,
                     next_id |-> mem.next_id + 1],
         object |-> object]

deallocate_except_ids(mem, ids) ==
    [mem EXCEPT !.objects =
        [id \in (DOMAIN mem.objects) \cap ids |-> mem.objects[id]]]

(***************************************************************************)
(* Result<JavascriptObjectRef, EngineError>                                *)
(***************************************************************************)
NoError == <<"none", "">>

Ok(object) == [ok |-> TRUE, object |-> object, error |-> NoError]

Err(error) == [ok |-> FALSE, object |-> NoObject, error |-> error]

IdentifierNotFound(name) == <<"identifier-not-found", name>>

InvalidAssignmentTarget == <<"invalid-assignment-target", "">>

DuplicateBinding(name) == <<"duplicate-binding", name>>

UnsupportedOperator(op) == <<"unsupported-operator", op>>

(***************************************************************************)
(* ExecutionScope: the bindings of one scope and its parent.  The parent   *)
(* is a position in the scope stack, 0 for no parent.                      *)
(***************************************************************************)
ExecutionScopeNew(parent) == [variables |-> <<>>, parent |-> parent]

\* define: insert into this scope only; fails when the name exists in it.
define(scope, name, object) ==
    IF name \in DOMAIN scope.variables
    THEN [scope |-> scope, result |-> Err(DuplicateBinding(name))]
    ELSE [scope |-> [scope EXCEPT !.variables = (name :> object) @@ @],
          result |-> Ok(object)]

\* get: this scope, then the parent chain.
RECURSIVE get(_, _, _)
get(scps, i, name) ==
    IF name \in DOMAIN scps[i].variables THEN Some(scps[i].variables[name])
    ELSE IF scps[i].parent = 0 THEN None
    ELSE get(scps, scps[i].parent, name)

\* assign: replace the handle of the first binding found in the chain.
RECURSIVE assign(_, _, _, _)
assign(scps, i, name, object) ==
    IF name \in DOMAIN scps[i].variables
    THEN [scps EXCEPT ![i].variables[name] = object]
    ELSE IF scps[i].parent = 0 THEN scps
    ELSE assign(scps, scps[i].parent, name, object)

get_variable_ids(scope) ==
    {scope.variables[n].id : n \in DOMAIN scope.variables}

(***************************************************************************)
(* Expression: the parser's tree.                                          *)
(***************************************************************************)
Program(expressions) == [kind |-> "Program", expressions |-> expressions]

LetVariableDeclaration(name, initializer) ==
    [kind |-> "LetVariableDeclaration", name |-> name,
     initializer |-> initializer]

NumberLiteral(value) == [kind |-> "NumberLiteral", value |-> value]

StringLiteral(value) == [kind |-> "StringLiteral", text |-> value]

Parenthesized(expression) ==
    [kind |-> "Parenthesized", expression |-> expression]

Identifier(name) == [kind |-> "Identifier", name |-> name]

BinaryOp(left, op, right) ==
    [kind |-> "BinaryOp", left |-> left, op |-> op, right |-> right]

\* Operator::is_equals: true only for the assignment operator.
is_equals(op) == op = "Equals"

Precedence(op) ==
    CASE op \in {"Multiply", "Divide"} -> 3
      [] op \in {"Plus", "Minus"}      -> 2
      [] op = "EqualsEquals"           -> 1
      [] OTHER                         -> 0

\* Parser::reorder_expression: move an operator that binds tighter than the
\* operator of an unparenthesised operand below that operand's operator.
RECURSIVE reorder_expression(_)
reorder_expression(e) ==
    IF e.kind # "BinaryOp" THEN e
    ELSE LET l == reorder_expression(e.left)
             r == reorder_expression(e.right)
         IN  IF r.kind = "BinaryOp" /\ Precedence(e.op) > Precedence(r.op)
             THEN BinaryOp(reorder_expression(BinaryOp(l, e.op, r.left)),
                           r.op, r.right)
             ELSE IF l.kind = "BinaryOp" /\ Precedence(e.op) > Precedence(l.op)
             THEN BinaryOp(l.left, l.op,
                           reorder_expression(BinaryOp(l.right, e.op, r)))
             ELSE BinaryOp(l, e.op, r)

(***************************************************************************)
(* The programs evaluated.                                                 *)
(***************************************************************************)
UNDEFINED_NAME == "undefined"

TRUE_NAME == "true"

FALSE_NAME == "false"

\* GC runs when execution_tick is a multiple of this.
GcPeriod == 10

\* Longest list of statements of a Program.
MaxStmts == 3

Num(n) == NumberLiteral(FloatOf(n))

Id(name) == Identifier(name)

Set(name, e) == BinaryOp(Id(name), "Equals", e)

ArithOps == {"Plus", "Minus", "Multiply", "Divide", "EqualsEquals"}

\* Statements combined freely into programs of up to MaxStmts statements.
Stmts ==
    { LetVariableDeclaration("x", Num(2)),
      LetVariableDeclaration("x", BinaryOp(Num(2), "Plus", Num(3))),
      LetVariableDeclaration("y", Id("x")),
      LetVariableDeclaration(TRUE_NAME, Num(3)),
      Set("x", Num(3)),
      Set("x", Parenthesized(Num(4))),
      Set("y", StringLiteral(<<"3">>)),
      Set(UNDEFINED_NAME, Num(2)),
      BinaryOp(Num(2), "Equals", Num(3)),
      BinaryOp(Parenthesized(BinaryOp(Id("x"), "Plus", Num(3))), "Multiply",
               Parenthesized(BinaryOp(Id("x"), "Minus", Num(4)))),
      BinaryOp(Id("x"), "EqualsEquals", Parenthesized(Num(3))),
      Id("x") }

RECURSIVE SeqsUpTo(_, _)
SeqsUpTo(S, n) ==
    IF n = 0 THEN {<<>>}
    ELSE LET shorter == SeqsUpTo(S, n - 1)
         IN  shorter \cup {Append(q, e) : q \in shorter, e \in S}

StmtPrograms == {Program(q) : q \in SeqsUpTo(Stmts, MaxStmts)}

\* Longest list of statements, after the declaration, of a long program.
MaxGcStmts == 5

\* Long programs: a declaration and up to MaxGcStmts uses of the variable.
GcStmts ==
    { Set("x", BinaryOp(Id("x"), "Plus", Num(1))),
      Set("x", Parenthesized(Num(4))),
      BinaryOp(Parenthesized(BinaryOp(Id("x"), "Plus", Num(3))), "Multiply",
               Parenthesized(BinaryOp(Id("x"), "Minus", Num(4)))) }

GcPrograms ==
    {Program(<<LetVariableDeclaration("x", Num(2))>> \o q) :
        q \in SeqsUpTo(GcStmts, MaxGcStmts)}

\* One-statement programs: `a op1 b op2 c` in both nestings.
Operands == {Num(2), Num(3), Num(4)}

NestedPrograms ==
    {Program(<<BinaryOp(BinaryOp(Num(2), o1, Num(3)), o2, Num(4))>>) :
        o1 \in ArithOps, o2 \in ArithOps}
    \cup
    {Program(<<BinaryOp(Num(2), o1, BinaryOp(Num(3), o2, Num(4)))>>) :
        o1 \in ArithOps, o2 \in ArithOps}
    \cup
    {Program(<<BinaryOp(Num(1), o1,
                        BinaryOp(BinaryOp(Num(2), "Plus", Num(3)), o2, Num(4)))>>) :
        o1 \in ArithOps, o2 \in ArithOps}

\* One-statement programs: one operator over operands of every kind.
Atoms ==
    { Num(0), Num(1), Num(3), StringLiteral(<<"1">>), StringLiteral(<<"3">>),
      StringLiteral(<<"a", "b", "c">>),
      Id(UNDEFINED_NAME), Id(TRUE_NAME), Id(FALSE_NAME) }

AtomPrograms ==
    {Program(<<BinaryOp(a, o, b)>>) : a \in Atoms, o \in ArithOps, b \in Atoms}

\* Programs whose target of `let` or `=` is a pre-bound name.
PreBoundNames == {UNDEFINED_NAME, TRUE_NAME, FALSE_NAME}

PreBoundPrograms ==
    {Program(<<Set(n, Num(2)), Id(m)>>) : n \in PreBoundNames, m \in PreBoundNames}
    \cup
    {Program(<<LetVariableDeclaration(n, StringLiteral(<<"3">>)), Id(n)>>) :
        n \in PreBoundNames}
    \cup
    {Program(<<Set(n, Num(0)), BinaryOp(Num(0), "EqualsEquals", Num(m))>>) :
        n \in PreBoundNames, m \in {0, 1}}

\* Programs that assign to something other than an identifier.
InvalidTargets ==
    { Num(2), StringLiteral(<<"3">>), Parenthesized(Id("x")),
      BinaryOp(Id("x"), "Plus", Num(1)) }

InvalidTargetPrograms ==
    {Program(<<LetVariableDeclaration("x", Num(2)),
               BinaryOp(l, "Equals", Num(3)), Id("x")>>) : l \in InvalidTargets}

Programs ==
    StmtPrograms \cup GcPrograms \cup NestedPrograms \cup AtomPrograms
    \cup PreBoundPrograms \cup InvalidTargetPrograms

(***************************************************************************)
(* State.                                                                  *)
(***************************************************************************)
VARIABLES
    program,         \* the Program handed to execute_expression
    scopes,          \* ExecutionEngine.scopes
    memory,          \* ExecutionEngine.memory
    execution_tick,  \* ExecutionEngine.execution_tick
    stack,           \* the active calls of execute_expression, innermost last
    returned,        \* the Result in flight from a call to its caller
    entered,         \* history: the paths of the nodes whose evaluation began
    calls,           \* history: path -> outcome of the completed call
    last_bound,      \* history: name -> handle of the last successful let or =
    allocated,       \* history: the ids handed out, in order
    sweeps           \* history: number of garbage collection cycles run

engine == <<scopes, memory, execution_tick>>

history == <<entered, calls, last_bound, allocated, sweeps>>

vars == <<program, scopes, memory, execution_tick, stack, returned,
          entered, calls, last_bound, allocated, sweeps>>

(***************************************************************************)
(* ExecutionEngine::new with initialize_global_scope.                      *)
(***************************************************************************)
\* initialize_global_scope pushing a second, empty scope over the global one.
initialize_global_scope_nested ==
    LET a1 == Allocate(MemoryNew, Undefined)
        s1 == define(ExecutionScopeNew(0), UNDEFINED_NAME, a1.object).scope
        a2 == Allocate(a1.memory, Boolean(TRUE))
        s2 == define(s1, TRUE_NAME, a2.object).scope
        a3 == Allocate(a2.memory, Boolean(FALSE))
        s3 == define(s2, FALSE_NAME, a3.object).scope
    IN  [scopes |-> <<s3, ExecutionScopeNew(1)>>, memory |-> a3.memory,
         allocated |-> <<a1.object.id, a2.object.id, a3.object.id>>]

\* initialize_global_scope allocating the singletons in a Memory of its own.
initialize_global_scope_detached ==
    LET a1 == Allocate(MemoryNew, Undefined)
        s1 == define(ExecutionScopeNew(0), UNDEFINED_NAME, a1.object).scope
        a2 == Allocate(a1.memory, Boolean(TRUE))
        s2 == define(s1, TRUE_NAME, a2.object).scope
        a3 == Allocate(a2.memory, Boolean(FALSE))
        s3 == define(s2, FALSE_NAME, a3.object).scope
    IN  [scopes |-> <<s3>>, memory |-> MemoryNew,
         allocated |-> <<a1.object.id, a2.object.id, a3.object.id>>]

initialize_global_scope ==
    LET a1 == Allocate(MemoryNew, Undefined)
        s1 == define(ExecutionScopeNew(0), UNDEFINED_NAME, a1.object).scope
        a2 == Allocate(a1.memory, Boolean(TRUE))
        s2 == define(s1, TRUE_NAME, a2.object).scope
        a3 == Allocate(a2.memory, Boolean(FALSE))
        s3 == define(s2, FALSE_NAME, a3.object).scope
    IN  [scopes |-> <<s3>>, memory |-> a3.memory,
         allocated |-> <<a1.object.id, a2.object.id, a3.object.id>>]

Init ==
    /\ program \in Programs
    /\ scopes = initialize_global_scope.scopes
    /\ memory = initialize_global_scope.memory
    /\ execution_tick = 0
    /\ stack = <<>>
    /\ returned = None
    /\ entered = {}
    /\ calls = <<>>
    /\ last_bound = <<>>
    /\ allocated = initialize_global_scope.allocated
    /\ sweeps = 0

(***************************************************************************)
(* Calls and returns of execute_expression.                                *)
(***************************************************************************)
Top == stack[Len(stack)]

Frame(expression, path) ==
    [expression |-> expression, path |-> path, pc |-> "match", index |-> 0,
     left_result |-> NoObject, result |-> Err(NoError)]

\* The caller, left as `caller`, calls execute_expression(expression).
Call(caller, expression, path) ==
    /\ stack' = Append([stack EXCEPT ![Len(stack)] = caller],
                       Frame(expression, path))
    /\ entered' = entered \cup {path}
    /\ returned' = None
    /\ calls' = calls

\* The innermost call returns `result` to its caller.
Return(result) ==
    /\ stack' = SubSeq(stack, 1, Len(stack) - 1)
    /\ returned' = Some(result)
    /\ entered' = entered
    /\ calls' = (Top.path :> [expression |-> Top.expression,
                              result |-> result, scopes |-> scopes',
                              memory |-> memory',
                              execution_tick |-> execution_tick']) @@ calls

\* The innermost call goes on to its lines 202-208 with `result`.
Finish(result) ==
    /\ stack' = [stack EXCEPT ![Len(stack)].pc = "tick",
                              ![Len(stack)].result = result]
    /\ returned' = None
    /\ UNCHANGED <<entered, calls>>

At(kind, pc) ==
    /\ stack # <<>>
    /\ Top.expression.kind = kind
    /\ Top.pc = pc

get_global_scope == 1

get_current_scope == Len(scopes)

get_undefined == get(scopes, get_global_scope, UNDEFINED_NAME)[1]

get_boolean(value) ==
    get(scopes, get_global_scope, IF value THEN TRUE_NAME ELSE FALSE_NAME)[1]

\* execute_source: the fresh engine is handed the parsed program.
ExecuteSource ==
    /\ stack = <<>>
    /\ entered = {}
    /\ stack' = <<Frame(program, <<>>)>>
    /\ entered' = {<<>>}
    /\ UNCHANGED <<program, engine, returned, calls, last_bound, allocated, sweeps>>

(***************************************************************************)
(* Expression::Program                                                     *)
(***************************************************************************)
\* The head of the loop over the children: call the next child, or leave the
\* loop and return undefined.
ProgramLoop ==
    /\ At("Program", "match")
    /\ UNCHANGED <<program, engine, last_bound, allocated, sweeps>>
    /\ IF Top.index < Len(Top.expression.expressions)
       THEN Call([Top EXCEPT !.pc = "wait"],
                 Top.expression.expressions[Top.index + 1],
                 Append(Top.path, Top.index))
       ELSE Return(Ok(get_undefined))

\* is_last_child with the comparison off by one.
is_last_child_off_by_one(index, expressions) == index = Len(expressions)

\* Is the child at `index` the one whose value the Program returns?
is_last_child(index, expressions) == index = Len(expressions) - 1

\* program_returns without the Err arm.
program_returns_ignoring_errors(r, index, expressions) ==
    index = Len(expressions) - 1

\* Does the Program return what the child at `index` returned?
program_returns(r, index, expressions) ==
    ~r.ok \/ is_last_child(index, expressions)

\* The body of the loop once the child returned.
ProgramChild ==
    /\ At("Program", "wait")
    /\ returned # None
    /\ UNCHANGED <<program, engine, last_bound, allocated, sweeps>>
    /\ IF program_returns(returned[1], Top.index, Top.expression.expressions)
       THEN Return(returned[1])
       ELSE /\ stack' = [stack EXCEPT ![Len(stack)].pc = "match",
                                      ![Len(stack)].index = @ + 1]
            /\ returned' = None
            /\ UNCHANGED <<entered, calls>>

(***************************************************************************)
(* Expression::LetVariableDeclaration                                      *)
(***************************************************************************)
LetInitializer ==
    /\ At("LetVariableDeclaration", "match")
    /\ UNCHANGED <<program, engine, last_bound, allocated, sweeps>>
    /\ Call([Top EXCEPT !.pc = "wait"], Top.expression.initializer,
            Append(Top.path, 1))

\* let_define binding a copy of the object under a new id.
let_define_copying(scps, name, object) ==
    LET d == define(scps[Len(scps)], name, [object EXCEPT !.id = @ + 1])
    IN  [scopes |-> [scps EXCEPT ![Len(scps)] = d.scope],
         result |-> IF d.result.ok THEN Ok(object) ELSE d.result]

\* let_define inserting whether or not the name is bound.
let_define_overwriting(scps, name, object) ==
    [scopes |-> [scps EXCEPT ![Len(scps)].variables = (name :> object) @@ @],
     result |-> Ok(object)]

\* Ok(object) => self.get_current_scope().define(name, object)
let_define(scps, name, object) ==
    LET d == define(scps[Len(scps)], name, object)
    IN  [scopes |-> [scps EXCEPT ![Len(scps)] = d.scope], result |-> d.result]

LetDefine ==
    /\ At("LetVariableDeclaration", "wait")
    /\ returned # None
    /\ LET r == returned[1]
           d == let_define(scopes, Top.expression.name, r.object)
       IN  IF r.ok
           THEN /\ scopes' = d.scopes
                /\ last_bound' = IF d.result.ok
                                 THEN (Top.expression.name :> r.object) @@ last_bound
                                 ELSE last_bound
                /\ Finish(d.result)
           ELSE /\ UNCHANGED <<scopes, last_bound>>
                /\ Finish(r)
    /\ UNCHANGED <<program, memory, execution_tick, allocated, sweeps>>

(***************************************************************************)
(* Expression::NumberLiteral, Expression::StringLiteral                    *)
(***************************************************************************)
NumberLiteralEval ==
    /\ At("NumberLiteral", "match")
    /\ LET a == Allocate(memory, Number(Top.expression.value))
       IN  /\ memory' = a.memory
           /\ allocated' = Append(allocated, a.object.id)
           /\ Finish(Ok(a.object))
    /\ UNCHANGED <<program, scopes, execution_tick, last_bound, sweeps>>

StringLiteralEval ==
    /\ At("StringLiteral", "match")
    /\ LET a == Allocate(memory, String(Top.expression.text))
       IN  /\ memory' = a.memory
           /\ allocated' = Append(allocated, a.object.id)
           /\ Finish(Ok(a.object))
    /\ UNCHANGED <<program, scopes, execution_tick, last_bound, sweeps>>

(***************************************************************************)
(* Expression::Parenthesized                                               *)
(***************************************************************************)
ParenthesizedInner ==
    /\ At("Parenthesized", "match")
    /\ UNCHANGED <<program, engine, last_bound, allocated, sweeps>>
    /\ Call([Top EXCEPT !.pc = "wait"], Top.expression.expression,
            Append(Top.path, 1))

ParenthesizedResult ==
    /\ At("Parenthesized", "wait")
    /\ returned # None
    /\ UNCHANGED <<program, engine, last_bound, allocated, sweeps>>
    /\ Finish(returned[1])

(***************************************************************************)
(* Expression::Identifier                                                  *)
(***************************************************************************)
identifier_result(scps, name) ==
    LET found == get(scps, Len(scps), name)
    IN  IF found # None THEN Ok(found[1]) ELSE Err(IdentifierNotFound(name))

IdentifierEval ==
    /\ At("Identifier", "match")
    /\ UNCHANGED <<program, engine, last_bound, allocated, sweeps>>
    /\ Finish(identifier_result(scopes, Top.expression.name))

(***************************************************************************)
(* Expression::BinaryOp, the assignment operator                           *)
(***************************************************************************)
\* assignment_target accepting any left operand.
assignment_target_any_left(scps, left) ==
    IF left.kind = "Identifier"
    THEN LET found == get(scps, Len(scps), left.name)
         IN  IF found # None THEN Ok(found[1])
             ELSE Err(IdentifierNotFound(left.name))
    ELSE Ok(NoObject)

\* assignment_target without the lookup of the identifier.
assignment_target_unchecked(scps, left) ==
    IF left.kind = "Identifier" THEN Ok(NoObject)
    ELSE Err(InvalidAssignmentTarget)

\* The match on *left: the variable found, or the error returned.
assignment_target(scps, left) ==
    IF left.kind = "Identifier"
    THEN LET found == get(scps, Len(scps), left.name)
         IN  IF found # None THEN Ok(found[1])
             ELSE Err(IdentifierNotFound(left.name))
    ELSE Err(InvalidAssignmentTarget)

AssignTarget ==
    /\ At("BinaryOp", "match")
    /\ is_equals(Top.expression.op)
    /\ UNCHANGED <<program, engine, last_bound, allocated, sweeps>>
    /\ LET target == assignment_target(scopes, Top.expression.left)
       IN  IF target.ok
           THEN Call([Top EXCEPT !.pc = "wait"], Top.expression.right,
                     Append(Top.path, 2))
           ELSE Return(target)

\* Expression::unwrap_name of an Identifier.
unwrap_name(e) == e.name

\* assign_value without the call of assign.
assign_value_dropped(scps, left, value) == scps

\* self.get_current_scope().assign(left.unwrap_name(), value.clone())
assign_value(scps, left, value) ==
    assign(scps, Len(scps), unwrap_name(left), value)

AssignValue ==
    /\ At("BinaryOp", "wait")
    /\ is_equals(Top.expression.op)
    /\ returned # None
    /\ UNCHANGED <<program, memory, execution_tick, allocated, sweeps>>
    /\ LET r == returned[1]
       IN  IF r.ok
           THEN /\ scopes' = assign_value(scopes, Top.expression.left, r.object)
                /\ last_bound' = (unwrap_name(Top.expression.left) :> r.object)
                                 @@ last_bound
                /\ Return(Ok(r.object))
           ELSE /\ UNCHANGED <<scopes, last_bound>>
                /\ Return(r)

(***************************************************************************)
(* Expression::BinaryOp, the other operators                               *)
(***************************************************************************)
\* The operand handed to execute_expression.
operand(e) == reorder_expression(e)

BinaryLeft ==
    /\ At("BinaryOp", "match")
    /\ ~is_equals(Top.expression.op)
    /\ UNCHANGED <<program, engine, last_bound, allocated, sweeps>>
    /\ Call([Top EXCEPT !.pc = "wait_left"], operand(Top.expression.left),
            Append(Top.path, 1))

BinaryRight ==
    /\ At("BinaryOp", "wait_left")
    /\ returned # None
    /\ UNCHANGED <<program, engine, last_bound, allocated, sweeps>>
    /\ IF returned[1].ok
       THEN Call([Top EXCEPT !.pc = "wait_right",
                             !.left_result = returned[1].object],
                 operand(Top.expression.right), Append(Top.path, 2))
       ELSE Return(returned[1])

\* The float an arithmetic operator computes from the operands' numbers.
arithmetic(op, l, r) ==
    CASE op = "Plus"     -> FloatAdd(l, r)
      [] op = "Minus"    -> FloatSub(l, r)
      [] op = "Multiply" -> FloatMul(l, r)
      [] op = "Divide"   -> FloatDiv(l, r)

\* binary_dispatch storing an arithmetic result in the left operand's object.
binary_dispatch_in_place(mem, op, left_result, right_result) ==
    IF op = "EqualsEquals"
    THEN [memory |-> mem,
          result |-> Ok(get_boolean(is_equal_to_non_strict(left_result.kind,
                                                           right_result.kind)))]
    ELSE IF op \in {"Plus", "Minus", "Multiply", "Divide"}
    THEN LET object == JavascriptObjectRef(left_result.id,
                           Number(arithmetic(op, cast_to_number(left_result.kind),
                                             cast_to_number(right_result.kind))))
         IN  [memory |-> [mem EXCEPT !.objects = (left_result.id :> object) @@ @],
              result |-> Ok(object)]
    ELSE [memory |-> mem, result |-> Err(UnsupportedOperator(op))]

\* binary_dispatch reading the operands' values through Memory's table.
binary_dispatch_through_table(mem, op, left_result, right_result) ==
    LET value(object) == IF object.id \in DOMAIN mem.objects
                         THEN mem.objects[object.id].kind
                         ELSE Undefined
    IN  IF op = "EqualsEquals"
        THEN [memory |-> mem,
              result |-> Ok(get_boolean(is_equal_to_non_strict(
                                value(left_result), value(right_result))))]
        ELSE IF op \in {"Plus", "Minus", "Multiply", "Divide"}
        THEN LET a == Allocate(mem, Number(arithmetic(op,
                                     cast_to_number(value(left_result)),
                                     cast_to_number(value(right_result)))))
             IN  [memory |-> a.memory, result |-> Ok(a.object)]
        ELSE [memory |-> mem, result |-> Err(UnsupportedOperator(op))]

\* match op.kind: the memory after the dispatch and its result.
binary_dispatch(mem, op, left_result, right_result) ==
    IF op = "EqualsEquals"
    THEN [memory |-> mem,
          result |-> Ok(get_boolean(is_equal_to_non_strict(left_result.kind,
                                                           right_result.kind)))]
    ELSE IF op \in {"Plus", "Minus", "Multiply", "Divide"}
    THEN LET a == Allocate(mem, Number(arithmetic(op,
                                 cast_to_number(left_result.kind),
                                 cast_to_number(right_result.kind))))
         IN  [memory |-> a.memory, result |-> Ok(a.object)]
    ELSE [memory |-> mem, result |-> Err(UnsupportedOperator(op))]

BinaryDispatch ==
    /\ At("BinaryOp", "wait_right")
    /\ returned # None
    /\ UNCHANGED <<program, scopes, execution_tick, last_bound, sweeps>>
    /\ IF returned[1].ok
       THEN LET d == binary_dispatch(memory, Top.expression.op,
                                     Top.left_result, returned[1].object)
            IN  /\ memory' = d.memory
                /\ allocated' = IF d.memory.next_id # memory.next_id
                                THEN Append(allocated, d.result.object.id)
                                ELSE allocated
                /\ Finish(d.result)
       ELSE /\ UNCHANGED <<memory, allocated>>
            /\ Return(returned[1])

(***************************************************************************)
(* The tick and the garbage collection that end a call.                    *)
(***************************************************************************)
RECURSIVE sweep_scopes(_, _, _)
sweep_scopes(scps, i, mem) ==
    IF i > Len(scps) THEN mem
    ELSE sweep_scopes(scps, i + 1,
                      deallocate_except_ids(mem, get_variable_ids(scps[i])))

\* collect_garbage that also drops the bindings of objects not in the table.
collect_garbage_unbinding(self) ==
    [scopes |-> [i \in 1..Len(self.scopes) |->
                    [self.scopes[i] EXCEPT !.variables =
                        [n \in {m \in DOMAIN @ : @[m].id \in DOMAIN self.memory.objects}
                            |-> @[n]]]],
     memory |-> sweep_scopes(self.scopes, 1, self.memory)]

\* collect_garbage that spares the object allocated last.
collect_garbage_sparing_newest(self) ==
    LET swept == sweep_scopes(self.scopes, 1, self.memory)
        kept  == (DOMAIN swept.objects)
                 \cup ({self.memory.next_id - 1} \cap DOMAIN self.memory.objects)
    IN  [self EXCEPT !.memory.objects = [id \in kept |-> self.memory.objects[id]]]

\* collect_garbage: the engine after one cycle.
collect_garbage(self) ==
    [self EXCEPT !.memory = sweep_scopes(self.scopes, 1, self.memory)]

\* is_gc_tick one tick early.
is_gc_tick_early(tick) == tick % GcPeriod = GcPeriod - 1

is_gc_tick(tick) == tick % GcPeriod = 0

Tick ==
    /\ stack # <<>>
    /\ Top.pc = "tick"
    /\ execution_tick' = execution_tick + 1
    /\ LET self == [scopes |-> scopes, memory |-> memory]
           after == IF is_gc_tick(execution_tick') THEN collect_garbage(self)
                    ELSE self
       IN  /\ scopes' = after.scopes
           /\ memory' = after.memory
    /\ sweeps' = IF is_gc_tick(execution_tick') THEN sweeps + 1 ELSE sweeps
    /\ UNCHANGED <<program, last_bound, allocated>>
    /\ Return(Top.result)

Next ==
    \/ ExecuteSource
    \/ ProgramLoop
    \/ ProgramChild
    \/ LetInitializer
    \/ LetDefine
    \/ NumberLiteralEval
    \/ StringLiteralEval
    \/ ParenthesizedInner
    \/ ParenthesizedResult
    \/ IdentifierEval
    \/ AssignTarget
    \/ AssignValue
    \/ BinaryLeft
    \/ BinaryRight
    \/ BinaryDispatch
    \/ Tick

Spec == Init /\ [][Next]_vars

\* The evaluation is over: execute_expression(program) has returned.
Done == stack = <<>> /\ returned # None

(***************************************************************************)
(* Properties.                                                             *)
(***************************************************************************)
CurrentBinding(name) == get(scopes, Len(scopes), name)

BoundIds == UNION {get_variable_ids(scopes[i]) : i \in 1..Len(scopes)}

Tabled == DOMAIN memory.objects

Singleton(name) == initialize_global_scope.scopes[1].variables[name]

IsAssignment(e) == e.kind = "BinaryOp" /\ is_equals(e.op)

\* C1: after a garbage collection cycle has run, every object bound by name
\* in a scope on the stack has its id in Memory's table.
C1_BoundObjectsAreTabled == sweeps > 0 => BoundIds \subseteq Tabled

C2_LookupInvariant ==
    /\ \A n \in DOMAIN last_bound : CurrentBinding(n) = Some(last_bound[n])
    /\ (/\ stack # <<>>
        /\ Top.expression.kind = "Identifier"
        /\ Top.pc = "tick"
        /\ Top.expression.name \in DOMAIN last_bound)
       => Top.result = Ok(last_bound[Top.expression.name])

C2_SweepStep == sweeps' # sweeps => scopes' = scopes

\* C2: whatever number of garbage collection cycles have run, evaluating
\* Identifier{name} for a name bound by a successful `let` or `=` returns the
\* handle most recently bound to that name, with the value it was bound with,
\* and a cycle changes no scope binding.
C2_BoundNamesSurviveSweeps == []C2_LookupInvariant /\ [][C2_SweepStep]_vars

\* An Identifier has just been looked up after two cycles, and the object it
\* is bound to is no longer in Memory's table.
C2_Witness ==
    /\ stack # <<>>
    /\ Top.expression.kind = "Identifier"
    /\ Top.pc = "tick"
    /\ Top.expression.name \in DOMAIN last_bound
    /\ Top.result.ok
    /\ Top.result.object.id \notin Tabled
    /\ sweeps >= 2

\* C3: at every point of an evaluation the names `undefined`, `true` and
\* `false` resolve to the three objects allocated at engine construction.
C3_SingletonsAreStable ==
    \A n \in PreBoundNames : CurrentBinding(n) = Some(Singleton(n))

Children == program.expressions

ChildDone(i) == <<i>> \in DOMAIN calls

ChildFailed(i) == ChildDone(i) /\ ~calls[<<i>>].result.ok

NoChildFailed == \A i \in 0..(Len(Children) - 1) : ~ChildFailed(i)

\* C4: a Program evaluates its children in order and, when all succeed,
\* returns the result of the last child; an empty Program returns the
\* `undefined` singleton; the bindings and allocations of the earlier
\* children are in effect at the end.
C4_ProgramReturnsLastChild ==
    (Done /\ NoChildFailed) =>
        IF Children = <<>>
        THEN returned[1] = Ok(Singleton(UNDEFINED_NAME))
        ELSE /\ \A i \in 0..(Len(Children) - 1) : ChildDone(i)
             /\ returned[1] = calls[<<Len(Children) - 1>>].result
             /\ \A i \in 0..(Len(Children) - 2) :
                    /\ calls[<<i>>].execution_tick < calls[<<i + 1>>].execution_tick
                    /\ calls[<<i>>].memory.next_id <= calls[<<i + 1>>].memory.next_id
             /\ \A i \in 0..(Len(Children) - 1) :
                    Children[i + 1].kind = "LetVariableDeclaration"
                    => CurrentBinding(Children[i + 1].name) # None

\* A Program of several children has returned the value of its last child,
\* which is not the value of its first child.
C4_Witness ==
    /\ Done
    /\ NoChildFailed
    /\ Len(Children) >= 2
    /\ returned[1].ok
    /\ returned[1] # calls[<<0>>].result
    /\ Children[1].kind = "LetVariableDeclaration"

\* C5: when child i of a Program fails, the Program returns that error and
\* no later child is evaluated: nothing is allocated, bound, ticked or swept
\* after the failure.
C5_ProgramStopsAtFirstError ==
    \A i \in 0..(Len(Children) - 1) :
        ChildFailed(i) =>
            /\ \A p \in entered : p = <<>> \/ p[1] <= i
            /\ scopes = calls[<<i>>].scopes
            /\ memory = calls[<<i>>].memory
            /\ execution_tick = calls[<<i>>].execution_tick
            /\ Done => returned[1] = calls[<<i>>].result

\* A Program has returned the error of a child that is not its last.
C5_Witness ==
    /\ Done
    /\ \E i \in 0..(Len(Children) - 2) : ChildFailed(i) /\ i >= 1

C6_UnboundAssignmentStep ==
    (/\ At("BinaryOp", "match")
     /\ is_equals(Top.expression.op)
     /\ Top.expression.left.kind = "Identifier"
     /\ CurrentBinding(Top.expression.left.name) = None)
    => /\ returned' = Some(Err(IdentifierNotFound(Top.expression.left.name)))
       /\ stack' = SubSeq(stack, 1, Len(stack) - 1)
       /\ Append(Top.path, 2) \notin entered'
       /\ UNCHANGED <<scopes, memory, execution_tick, allocated>>

\* C6: an assignment to a name that resolves in no scope fails with
\* identifier-not-found before its right-hand side is evaluated: nothing is
\* allocated and no binding is created or changed.
C6_UnboundAssignmentFails == [][C6_UnboundAssignmentStep]_vars

\* An assignment to an unbound name has returned its error and its right-hand
\* side was never entered.
C6_Witness ==
    \E p \in DOMAIN calls :
        /\ IsAssignment(calls[p].expression)
        /\ calls[p].expression.left.kind = "Identifier"
        /\ calls[p].result = Err(IdentifierNotFound(calls[p].expression.left.name))
        /\ Append(p, 2) \notin entered

C7_AssignmentStep ==
    (/\ At("BinaryOp", "wait")
     /\ is_equals(Top.expression.op)
     /\ returned # None
     /\ returned[1].ok)
    => /\ returned' = returned
       /\ stack' = SubSeq(stack, 1, Len(stack) - 1)
       /\ get(scopes', Len(scopes'), Top.expression.left.name)
              = Some(returned[1].object)

\* C7: a successful assignment `x = e` returns the handle that evaluating `e`
\* produced, and x then resolves to that same handle.
C7_AssignmentRebinds == [][C7_AssignmentStep]_vars

\* An assignment has returned a handle other than the one its target was
\* bound to before, and the target now resolves to it.
C7_Witness ==
    \E p \in DOMAIN calls :
        /\ IsAssignment(calls[p].expression)
        /\ calls[p].result.ok
        /\ Append(p, 2) \in DOMAIN calls
        /\ LET name == calls[p].expression.left.name
               rhs == calls[Append(p, 2)]
           IN  /\ get(rhs.scopes, Len(rhs.scopes), name) # Some(calls[p].result.object)
               /\ get(calls[p].scopes, Len(calls[p].scopes), name)
                      = Some(calls[p].result.object)

C8_RedeclarationStep ==
    (/\ At("LetVariableDeclaration", "wait")
     /\ returned # None
     /\ returned[1].ok
     /\ Top.expression.name \in DOMAIN scopes[Len(scopes)].variables)
    => /\ stack'[Len(stack')].result = Err(DuplicateBinding(Top.expression.name))
       /\ stack'[Len(stack')].pc = "tick"
       /\ Append(Top.path, 1) \in DOMAIN calls
       /\ scopes' = scopes

C8_RedeclarationOutcome ==
    \A p \in DOMAIN calls :
        (/\ calls[p].expression.kind = "LetVariableDeclaration"
         /\ Append(p, 1) \in DOMAIN calls
         /\ calls[Append(p, 1)].result.ok
         /\ calls[p].expression.name
                \in DOMAIN calls[Append(p, 1)].scopes[
                               Len(calls[Append(p, 1)].scopes)].variables)
        => /\ calls[p].result = Err(DuplicateBinding(calls[p].expression.name))
           /\ calls[p].scopes = calls[Append(p, 1)].scopes

\* C8: a `let` whose name is already bound in the current scope fails with
\* duplicate-binding once its initializer has been evaluated to a value, and
\* the name stays bound to the object it was bound to, for user names and
\* for `undefined`, `true` and `false`.
C8_RedeclarationFails ==
    [][C8_RedeclarationStep]_vars /\ []C8_RedeclarationOutcome

\* A second `let x` has failed with duplicate-binding and x is still bound to
\* the object of the first.
C8_Witness ==
    \E p \in DOMAIN calls :
        /\ calls[p].expression.kind = "LetVariableDeclaration"
        /\ calls[p].expression.name = "x"
        /\ calls[p].result = Err(DuplicateBinding("x"))
        /\ Append(p, 1) \in DOMAIN calls
        /\ CurrentBinding("x") # Some(calls[Append(p, 1)].result.object)

TwoPlusThreeTimesFour ==
    { BinaryOp(Num(2), "Plus", BinaryOp(Num(3), "Multiply", Num(4))),
      BinaryOp(BinaryOp(Num(2), "Plus", Num(3)), "Multiply", Num(4)) }

\* C9: `2 + 3 * 4` evaluates to 14 however the parser nested the two
\* BinaryOp nodes.
C9_PrecedenceInEveryNesting ==
    (Done /\ \E e \in TwoPlusThreeTimesFour : program = Program(<<e>>))
    => returned[1].ok /\ returned[1].object.kind = Number(FloatOf(14))

\* C10: every allocation receives an id greater than every id allocated
\* before it, so no id is handed out twice, also after sweeps.
C10_IdsStrictlyIncrease ==
    \A i, j \in 1..Len(allocated) : i < j => allocated[i] < allocated[j]

\* An object has been allocated after a cycle removed entries from the table.
C10_Witness ==
    /\ sweeps >= 1
    /\ allocated[Len(allocated)] \in Tabled
    /\ allocated[Len(allocated)] \notin BoundIds
    /\ \E i \in 1..Len(allocated) : allocated[i] \notin Tabled

\* C11: execution_tick is incremented once for every fully evaluated node of
\* every kind: after a successful evaluation it equals the number of nodes
\* that were evaluated.
C11_TickCountsEveryNode ==
    (Done /\ returned[1].ok) => execution_tick = Cardinality(DOMAIN calls)

C12_CycleStep ==
    /\ execution_tick' # execution_tick => execution_tick' = execution_tick + 1
    /\ (execution_tick' # execution_tick /\ execution_tick' % GcPeriod = 0)
       => /\ sweeps' = sweeps + 1
          /\ entered' = entered
          /\ DOMAIN memory'.objects \subseteq
                 UNION {get_variable_ids(scopes[i]) : i \in 1..Len(scopes)}
    /\ sweeps' # sweeps
       => /\ sweeps' = sweeps + 1
          /\ execution_tick' = execution_tick + 1
          /\ execution_tick' % GcPeriod = 0
    /\ Tabled \ DOMAIN memory'.objects # {} => sweeps' = sweeps + 1

\* C12: a garbage collection cycle runs exactly when an increment makes
\* execution_tick a multiple of 10: entries leave Memory's table only then,
\* and the cycle is part of the step of the increment, before any further
\* node is evaluated.
C12_CycleExactlyEveryTenthTick == [][C12_CycleStep]_vars

\* The tenth tick has just run the first cycle, which removed entries.
C12_Witness ==
    /\ execution_tick = GcPeriod
    /\ sweeps = 1
    /\ returned # None
    /\ \E i \in 1..Len(allocated) : allocated[i] \notin Tabled

\* The ids bound directly in every scope on the stack.
BoundInEveryScope ==
    {id \in BoundIds : \A i \in 1..Len(scopes) : id \in get_variable_ids(scopes[i])}

C13_SweepStep ==
    sweeps' # sweeps
    => /\ DOMAIN memory'.objects = Tabled \cap BoundInEveryScope
       /\ Len(scopes) = 1
          => DOMAIN memory'.objects = Tabled \cap get_variable_ids(scopes[1])
       /\ \A id \in DOMAIN memory'.objects : memory'.objects[id] = memory.objects[id]
       /\ \A i \in 1..Len(allocated) :
              allocated[i] \notin BoundIds => allocated[i] \notin DOMAIN memory'.objects
       /\ memory'.next_id = memory.next_id

\* C13: a cycle sweeps once per scope with that scope's own ids, so right
\* after it Memory's table holds exactly the previously tabled ids that are
\* bound in every scope on the stack (in the global scope, when it is the
\* only one) and no unbound object.
C13_CycleKeepsOnlyBoundIds == [][C13_SweepStep]_vars

\* The second cycle has just run, and the object a `let` declared, since
\* replaced by an assignment, is gone from the table.
C13_Witness ==
    /\ execution_tick = 2 * GcPeriod
    /\ sweeps = 2
    /\ returned # None
    /\ \E p \in DOMAIN calls :
           /\ calls[p].expression.kind = "LetVariableDeclaration"
           /\ calls[p].result.ok
           /\ calls[p].result.object.id \notin Tabled \cup BoundIds

(***************************************************************************)
(* The evaluation with garbage collection never run: execute_expression as *)
(* one recursive function of the expression and the engine, without the    *)
(* tick and the cycle.                                                     *)
(***************************************************************************)
Outcome(result, scps, mem) == [result |-> result, scopes |-> scps, memory |-> mem]

RECURSIVE WithoutCollection(_, _, _)
RECURSIVE WithoutCollectionChildren(_, _, _, _)
WithoutCollection(e, scps, mem) ==
    CASE e.kind = "Program" ->
            WithoutCollectionChildren(e.expressions, 1, scps, mem)
      [] e.kind = "LetVariableDeclaration" ->
            LET i == WithoutCollection(e.initializer, scps, mem)
                d == define(i.scopes[Len(i.scopes)], e.name, i.result.object)
            IN  IF i.result.ok
                THEN Outcome(d.result,
                             [i.scopes EXCEPT ![Len(i.scopes)] = d.scope], i.memory)
                ELSE i
      [] e.kind = "NumberLiteral" ->
            LET a == Allocate(mem, Number(e.value))
            IN  Outcome(Ok(a.object), scps, a.memory)
      [] e.kind = "StringLiteral" ->
            LET a == Allocate(mem, String(e.text))
            IN  Outcome(Ok(a.object), scps, a.memory)
      [] e.kind = "Parenthesized" -> WithoutCollection(e.expression, scps, mem)
      [] e.kind = "Identifier" ->
            LET found == get(scps, Len(scps), e.name)
            IN  IF found # None THEN Outcome(Ok(found[1]), scps, mem)
                ELSE Outcome(Err(IdentifierNotFound(e.name)), scps, mem)
      [] e.kind = "BinaryOp" /\ e.op = "Equals" ->
            IF e.left.kind # "Identifier"
            THEN Outcome(Err(InvalidAssignmentTarget), scps, mem)
            ELSE IF get(scps, Len(scps), e.left.name) = None
            THEN Outcome(Err(IdentifierNotFound(e.left.name)), scps, mem)
            ELSE LET r == WithoutCollection(e.right, scps, mem)
                 IN  IF r.result.ok
                     THEN Outcome(r.result,
                                  assign(r.scopes, Len(r.scopes), e.left.name,
                                         r.result.object),
                                  r.memory)
                     ELSE r
      [] e.kind = "BinaryOp" /\ e.op # "Equals" ->
            LET l == WithoutCollection(reorder_expression(e.left), scps, mem)
                r == WithoutCollection(reorder_expression(e.right), l.scopes, l.memory)
                lv == l.result.object.kind
                rv == r.result.object.kind
                a == Allocate(r.memory,
                              Number(arithmetic(e.op, cast_to_number(lv),
                                                cast_to_number(rv))))
            IN  IF ~l.result.ok THEN l
                ELSE IF ~r.result.ok THEN r
                ELSE IF e.op = "EqualsEquals"
                THEN Outcome(Ok(get(r.scopes, 1,
                                    IF is_equal_to_non_strict(lv, rv)
                                    THEN TRUE_NAME ELSE FALSE_NAME)[1]),
                             r.scopes, r.memory)
                ELSE Outcome(Ok(a.object), r.scopes, a.memory)

WithoutCollectionChildren(es, i, scps, mem) ==
    IF i > Len(es)
    THEN Outcome(Ok(get(scps, 1, UNDEFINED_NAME)[1]), scps, mem)
    ELSE LET c == WithoutCollection(es[i], scps, mem)
         IN  IF ~c.result.ok \/ i = Len(es) THEN c
             ELSE WithoutCollectionChildren(es, i + 1, c.scopes, c.memory)

\* C14: garbage collection is transparent to the result: execute_source
\* returns what it would return with collection never run (the same success
\* or error, the same result object and value), also when an operand or the
\* result was swept from Memory's table on the way.
C14_CollectionIsTransparent ==
    Done => returned[1] = WithoutCollection(program,
                                            initialize_global_scope.scopes,
                                            initialize_global_scope.memory).result

\* An arithmetic BinaryOp has used a left operand that a cycle removed from
\* the table while the right operand was evaluated, and the program's result
\* is itself no longer in the table.
C14_Witness ==
    /\ Done
    /\ returned[1].ok
    /\ sweeps >= 1
    /\ returned[1].object.id \notin Tabled
    /\ \E p \in DOMAIN calls :
           /\ calls[p].expression.kind = "BinaryOp"
           /\ calls[p].expression.op \in {"Plus", "Minus", "Multiply", "Divide"}
           /\ calls[p].result.ok
           /\ calls[Append(p, 1)].result.object.id
                  \in DOMAIN calls[Append(p, 1)].memory.objects
           /\ calls[Append(p, 1)].result.object.id
                  \notin DOMAIN calls[Append(p, 2)].memory.objects

\* No assignment and no declaration in the tree.
RECURSIVE IsPure(_)
IsPure(e) ==
    CASE e.kind \in {"NumberLiteral", "StringLiteral", "Identifier"} -> TRUE
      [] e.kind = "Parenthesized" -> IsPure(e.expression)
      [] e.kind = "BinaryOp" -> ~is_equals(e.op) /\ IsPure(e.left) /\ IsPure(e.right)
      [] OTHER -> FALSE

InPureBinaryOp ==
    \E k \in 1..Len(stack) :
        stack[k].expression.kind = "BinaryOp" /\ IsPure(stack[k].expression)

C15_PureStep ==
    InPureBinaryOp
    => /\ scopes' = scopes
       /\ last_bound' = last_bound
       /\ \A id \in Tabled \cap DOMAIN memory'.objects :
              memory'.objects[id] = memory.objects[id]
       /\ memory'.next_id >= memory.next_id

\* C15: while a BinaryOp with one of + - * / == and no assignment or
\* declaration among its operands is evaluated, no binding of any scope and
\* no value of an existing object changes; it only allocates, ticks and
\* sweeps.
C15_ArithmeticIsPure == [][C15_PureStep]_vars

\* An arithmetic BinaryOp over a bound variable has completed, with a cycle
\* run between its left operand and its result.
C15_Witness ==
    \E p \in DOMAIN calls :
        /\ calls[p].expression.kind = "BinaryOp"
        /\ IsPure(calls[p].expression)
        /\ calls[p].expression.op \in {"Plus", "Minus", "Multiply", "Divide"}
        /\ calls[p].expression.left.kind = "Identifier"
        /\ calls[p].result.ok
        /\ calls[Append(p, 1)].execution_tick < GcPeriod
        /\ calls[p].execution_tick >= GcPeriod
        /\ calls[p].scopes = calls[Append(p, 1)].scopes

EqualsEqualsCalls ==
    {p \in DOMAIN calls : /\ calls[p].expression.kind = "BinaryOp"
                          /\ calls[p].expression.op = "EqualsEquals"
                          /\ calls[p].result.ok}

\* C16: `l == r` with both operands succeeding returns the `true` singleton
\* allocated at construction when the loose equality holds and the `false`
\* singleton otherwise, always a Boolean object, and allocates nothing.
C16_EqualityReturnsSingleton ==
    \A p \in EqualsEqualsCalls :
        LET l == calls[Append(p, 1)].result.object
            r == calls[Append(p, 2)].result.object
        IN  /\ calls[p].result.object =
                   Singleton(IF is_equal_to_non_strict(l.kind, r.kind)
                             THEN TRUE_NAME ELSE FALSE_NAME)
            /\ calls[p].result.object.kind[1] = "Boolean"
            /\ calls[p].memory.next_id = calls[Append(p, 2)].memory.next_id

C17_InvalidTargetStep ==
    (/\ At("BinaryOp", "match")
     /\ is_equals(Top.expression.op)
     /\ Top.expression.left.kind # "Identifier")
    => /\ returned' = Some(Err(InvalidAssignmentTarget))
       /\ stack' = SubSeq(stack, 1, Len(stack) - 1)
       /\ entered' = entered
       /\ UNCHANGED <<scopes, memory, execution_tick, allocated, sweeps>>

C17_LeftNeverEvaluated ==
    /\ \A k \in 1..Len(stack) :
           IsAssignment(stack[k].expression)
           => Append(stack[k].path, 1) \notin entered
    /\ \A p \in DOMAIN calls :
           IsAssignment(calls[p].expression) => Append(p, 1) \notin entered

\* C17: an assignment whose left operand is not an Identifier fails with
\* invalid-assignment-target without evaluating either operand: nothing is
\* allocated, bound or ticked; the left operand of an assignment is never
\* evaluated, only looked up.
C17_InvalidTargetFails ==
    [][C17_InvalidTargetStep]_vars /\ []C17_LeftNeverEvaluated

\* An assignment to a parenthesised identifier has failed and neither of its
\* operands was entered.
C17_Witness ==
    \E p \in DOMAIN calls :
        /\ IsAssignment(calls[p].expression)
        /\ calls[p].expression.left.kind = "Parenthesized"
        /\ calls[p].result = Err(InvalidAssignmentTarget)
        /\ Append(p, 1) \notin entered
        /\ Append(p, 2) \notin entered

LetCalls ==
    {p \in DOMAIN calls : calls[p].expression.kind = "LetVariableDeclaration"}

Innermost(scps) == scps[Len(scps)]

\* C18: a successful `let name = init` returns the very handle its
\* initializer returned and binds name to it in the innermost scope, with no
\* allocation of its own, so that after `let y = x` both names resolve to one
\* object id; a let whose initializer fails returns that error, changes no
\* scope and leaves an unbound name unbound.
C18_LetBindsTheInitializerHandle ==
    \A p \in LetCalls :
        LET c == calls[p]
            i == calls[Append(p, 1)]
            name == c.expression.name
            init == c.expression.initializer
        IN  /\ c.result.ok
               => /\ i.result.ok
                  /\ c.result.object = i.result.object
                  /\ name \in DOMAIN Innermost(c.scopes).variables
                  /\ Innermost(c.scopes).variables[name] = i.result.object
                  /\ c.memory.next_id = i.memory.next_id
                  /\ init.kind = "Identifier"
                     => get(c.scopes, Len(c.scopes), init.name)
                        = get(c.scopes, Len(c.scopes), name)
            /\ ~i.result.ok
               => /\ c.result = i.result
                  /\ c.scopes = i.scopes
                  /\ get(i.scopes, Len(i.scopes), name) = None
                     => get(c.scopes, Len(c.scopes), name) = None

\* `let x = 2; let y = x` has run: x and y resolve to one object and the second
\* let returned it without allocating.
C18_Witness ==
    /\ Done
    /\ \E p \in LetCalls :
           /\ calls[p].expression.initializer.kind = "Identifier"
           /\ calls[p].result.ok
           /\ calls[p].memory.next_id = calls[Append(p, 1)].memory.next_id
           /\ CurrentBinding(calls[p].expression.name) # None
           /\ CurrentBinding(calls[p].expression.name)
              = CurrentBinding(calls[p].expression.initializer.name)

\* C19: the scope stack holds exactly one scope, the parentless global scope,
\* in every reachable state, so the current scope is the global scope and
\* every name a `let` has bound is bound in the global scope.
C19_OnlyTheGlobalScope ==
    /\ Len(scopes) = 1
    /\ scopes[1].parent = 0
    /\ get_current_scope = get_global_scope
    /\ DOMAIN last_bound \subseteq DOMAIN scopes[get_global_scope].variables
    /\ \A p \in LetCalls :
           /\ Len(calls[p].scopes) = 1
           /\ calls[p].result.ok
              => calls[p].expression.name
                 \in DOMAIN calls[p].scopes[get_global_scope].variables

\* Evaluation has ended after a successful let and a collection cycle.
C19_Witness ==
    /\ Done
    /\ sweeps >= 1
    /\ \E p \in LetCalls :
           /\ calls[p].result.ok
           /\ calls[p].expression.name \notin PreBoundNames
           /\ calls[p].expression.name
              \in DOMAIN scopes[get_current_scope].variables
====
